---- MODULE Spec2Model ----
(***************************************************************************)
(* A model of gomcp: the JSON-RPC dispatcher of mcpserver (unary binding   *)
(* httpHandler, duplex binding wsHandler), its capability registries and   *)
(* method switch table, and the client transports of mcpclient.            *)
(*                                                                         *)
(* Strings are modelled as sequences of tokens, so that "the message       *)
(* contains ..." is a statement about contiguous sub-sequences.            *)
(* An optional value (a nil interface, a nil pointer) is the empty         *)
(* sequence, a present value v is <<v>>.                                   *)
(***************************************************************************)
EXTENDS Integers, Sequences, FiniteSets, TLC

VARIABLES
    Methods,            \* mcpserver.Methods: method name -> enabled flag
    toolRegistry,       \* mcpserver.toolRegistry: name -> *Tool
    resourceRegistry,   \* mcpserver.resourceRegistry: name -> *Resource
    promptRegistry,     \* mcpserver.promptRegistry: name -> *Prompt
    out,                \* what the last served request produced (observation)
    \* the unified client facade and its transport
    mode,               \* UnifiedClient.mode: "http", "ws", "sse" ("" for the zero value)
    callers,            \* the goroutines that use the facade
    counter,            \* HTTPClient.counter / WSClient.counter of the bound transport
    callPc,             \* per caller: where it is inside Call
    callReq,            \* per caller: the rpcRequest it built
    callRet,            \* per caller: what its last facade operation returned
    issued,             \* history: the request ids, in the order of the counter increments
    wire,               \* history: what the client did on the network, in order
    returns,            \* history: the calls that returned, in order
    \* the duplex connection
    sock,               \* WSClient.conn: "open" or "released"
    closePc,            \* number of statements of WSClient.Close executed (0: not in Close)
    closes,             \* number of completed calls of WSClient.Close
    c2s,                \* frames in flight from the client to the server
    s2c,                \* frames in flight from the server to the client
    srvPc,              \* wsHandler: position of the read/dispatch loop
    srvResp,            \* wsHandler: the response about to be written
    hbPc,               \* wsHandler: position of the heartbeat goroutine
    done,               \* wsHandler: number of times close(done) was executed
    srvConn,            \* wsHandler: conn, "open" or "closed"
    ticks,              \* number of times the heartbeat ticker fired
    raced,              \* a probe write and a response write overlapped
    served,             \* history: the requests dispatched on the connection and their outcome
    \* the push client
    sseStream,          \* the body of the event stream: its lines and its unterminated tail
    ssePos,             \* number of lines ListenSSE has read
    ssePc,              \* ListenSSE: "idle", "reading" or "ended"
    eventName,          \* ListenSSE: eventName
    callbacks,          \* history: the calls of the handler, in order
    \* the push binding of the server
    sseClients,         \* mcpserver.sseClients: the set of subscribers
    hPc,                \* per connection: position of its sseHandler
    bcPc,               \* the ticker goroutine: "idle", inside broadcastSSE ("iter"), "dead"
    bcStart,            \* sseClients when the current broadcast began
    bcVisited,          \* the subscribers the range loop has produced so far
    count,              \* count of the ticker goroutine: number of broadcasts begun
    deliveries,         \* history: the writes to subscribers, in order
    mapRaced,           \* the accesses to sseClients in progress include an overlapped one
    fatal,              \* the runtime has ended the process (fatal error)
    \* goroutines using the registries
    stPc,               \* per goroutine: the registry operation it is inside
    stRaced,            \* per store: an operation in progress was overlapped by a write
    regLog              \* history: the registrations made, in order

dispatchVars == <<Methods, toolRegistry, resourceRegistry, promptRegistry, out>>

facadeVars == <<mode, callers, counter, callPc, callReq, callRet, issued, wire, returns>>

connVars == <<sock, closePc, closes, c2s, s2c, srvPc, srvResp, hbPc, done, srvConn,
              ticks, raced, served>>

pushVars == <<sseStream, ssePos, ssePc, eventName, callbacks>>

hubVars == <<sseClients, hPc, bcPc, bcStart, bcVisited, count, deliveries, mapRaced>>

storeVars == <<stPc, stRaced, regLog>>

\* the state of the server besides the dispatcher
sharedVars == <<hubVars, storeVars, fatal>>

\* the state of the client side, of the duplex connection and of the push stream
clientVars == <<facadeVars, connVars, pushVars>>

vars == <<dispatchVars, clientVars, sharedVars>>

----------------------------------------------------------------------------
(* Bounds of the model *)

\* request ids range over 1..MaxId
MaxId == 2

\* number of goroutines sharing one facade
NumCallers == 2

\* number of calls that reach a transport (caps the id counter)
MaxCalls == 2

\* number of times the heartbeat ticker fires on a connection
MaxTicks == 1

\* number of lines of an event stream
MaxLines == 3

\* number of connections to /sse
NumSubs == 2

\* number of times the ticker of Start fires
MaxEvents == 2

\* number of goroutines that use the registries at once
NumTasks == 2

\* number of registrations the history regLog follows
MaxRegs == 3

----------------------------------------------------------------------------
(* Strings *)

\* s contains sub as a contiguous sub-sequence (strings.Contains)
Contains(s, sub) ==
    \E i \in 0..(Len(s) - Len(sub)) :
        \A j \in 1..Len(sub) : s[i + j] = sub[j]

NotFoundText == <<"not", " ", "found">>

None == <<>>
Some(v) == <<v>>
IsSet(o) == Len(o) > 0

----------------------------------------------------------------------------
(* What the server is observed to do with a request *)

\* a request body that does not decode into an RPCRequest
Malformed ==
    [wellFormed |-> FALSE, id |-> 0, method |-> "",
     params |-> [kind |-> "absent", name |-> "<missing>", args |-> "<nil>"]]

\* what a binding did with a request: the envelope it wrote, if any, and
\* the accesses made. out holds it right after the request was served, and
\* NothingServed after any other step.
Served(binding, req, status, resp, calls) ==
    [binding |-> binding, req |-> req, status |-> status, resp |-> resp,
     calls |-> calls]

NothingServed == Served("none", Malformed, "none", None, <<>>)

----------------------------------------------------------------------------
(* The method switch table *)

\* the keys of the table
MethodNames ==
    { "tools.run", "tools.list", "resources.get", "resources.list",
      "prompts.get", "prompts.list", "server.info", "system.describe",
      "system.listMethods", "system.version" }

\* the initial table: every method enabled
MethodsInit == [m \in MethodNames |-> TRUE]

IsMethodEnabled(method) ==
    method \in DOMAIN Methods /\ Methods[method]

ListEnabledMethods == { m \in DOMAIN Methods : Methods[m] }

\* method names the model toggles, one of them not in the table
ToggledMethods == { "tools.run", "system.version", "foo.bar" }

\* SetMethodEnabled without the test for the key: the assignment adds the
\* name to the table
SetMethodEnabledAddsKey(method, enabled) ==
    /\ Methods' = [m \in DOMAIN Methods \cup {method} |->
                        IF m = method THEN enabled ELSE Methods[m]]
    /\ out' = NothingServed
    /\ UNCHANGED <<toolRegistry, resourceRegistry, promptRegistry, clientVars, sharedVars>>

\* if _, ok := Methods[method]; ok { Methods[method] = enabled }
SetMethodEnabled(method, enabled) ==
    /\ Methods' = IF method \in DOMAIN Methods
                  THEN [Methods EXCEPT ![method] = enabled]
                  ELSE Methods
    /\ out' = NothingServed
    /\ UNCHANGED <<toolRegistry, resourceRegistry, promptRegistry, clientVars, sharedVars>>

----------------------------------------------------------------------------
(* Capability registries *)

\* names used for tools, resources and prompts; "" is the zero value of a
\* Go string, "ghost" is never registered
Names == { "geocode", "", "ghost" }

\* the raw arguments of a tool call: NoArgs is the zero-valued (nil)
\* json.RawMessage, ObjArgs a JSON object
NoArgs == "<nil>"
ObjArgs == "{x:1}"
Args == { NoArgs, ObjArgs }

\* what a tool's Handler does with its arguments
\*   demo:   a handler of testTools, json.Unmarshal into an input struct
\*   echo:   returns its input unchanged
\*   retnil: returns (nil, nil)
\*   fail:   returns (nil, error)
HandlerKinds == { "demo", "echo", "retnil", "fail" }

\* the tools the model registers
ToolDescriptors ==
    { [Name |-> "geocode", Description |-> "d1", Handler |-> "demo"],
      [Name |-> "geocode", Description |-> "d2", Handler |-> "echo"],
      [Name |-> "geocode", Description |-> "d3", Handler |-> "retnil"],
      [Name |-> "",        Description |-> "d4", Handler |-> "fail"] }

ResourceDescriptors ==
    { [Name |-> "geocode", Type |-> "string", Data |-> "hello"] }

PromptDescriptors ==
    { [Name |-> "geocode", Template |-> "t1"] }

\* a map assignment that keeps the entry a key already has
MapPutKeepFirst(m, k, v) ==
    [n \in (DOMAIN m) \cup {k} |-> IF n \in DOMAIN m THEN m[n] ELSE v]

\* m[k] = v, a Go map assignment
MapPut(m, k, v) ==
    [n \in (DOMAIN m) \cup {k} |-> IF n = k THEN v ELSE m[n]]

EmptyMap == [n \in {} |-> 0]

RegisterTool(tool) ==
    /\ toolRegistry' = MapPut(toolRegistry, tool.Name, tool)
    /\ out' = NothingServed
    /\ UNCHANGED <<Methods, resourceRegistry, promptRegistry, clientVars, sharedVars>>

RegisterResource(r) ==
    /\ resourceRegistry' = MapPut(resourceRegistry, r.Name, r)
    /\ out' = NothingServed
    /\ UNCHANGED <<Methods, toolRegistry, promptRegistry, clientVars, sharedVars>>

RegisterPrompt(p) ==
    /\ promptRegistry' = MapPut(promptRegistry, p.Name, p)
    /\ out' = NothingServed
    /\ UNCHANGED <<Methods, toolRegistry, resourceRegistry, clientVars, sharedVars>>

\* the list of ToolSummary, as a set (map iteration order is unspecified)
ListTools ==
    { [name |-> toolRegistry[n].Name, description |-> toolRegistry[n].Description] :
        n \in DOMAIN toolRegistry }

ListResources ==
    { [name |-> resourceRegistry[n].Name, type |-> resourceRegistry[n].Type] :
        n \in DOMAIN resourceRegistry }

ListPrompts == DOMAIN promptRegistry

listTools == [tools |-> ListTools]

\* tool.Handler(args): result and error of the handler
RunHandler(kind, args) ==
    CASE kind = "demo" ->
            IF args = ObjArgs
            THEN [result |-> Some([address |-> args, lat |-> 39, lng |-> 116]),
                  err |-> None]
            ELSE [result |-> None, err |-> Some(<<"json", ":", " ", "cannot unmarshal">>)]
      [] kind = "echo"   -> [result |-> Some(args), err |-> None]
      [] kind = "retnil" -> [result |-> None, err |-> None]
      [] OTHER           -> [result |-> None, err |-> Some(<<"handler", " ", "failed">>)]

\* a record of one access made while serving a request
Access(op, name, args) == [op |-> op, name |-> name, args |-> args]

\* CallToolByName that drops the error of the handler
CallToolByNameSwallowsError(name, args) ==
    IF name \in DOMAIN toolRegistry
    THEN LET r == RunHandler(toolRegistry[name].Handler, args)
         IN  [result |-> r.result, err |-> None,
              calls |-> << Access("toolRegistry", name, NoArgs),
                           Access("Handler", name, args) >>]
    ELSE [result |-> None,
          err |-> Some(<<"tool", " ", "not", " ", "found", ":", " ">> \o <<name>>),
          calls |-> << Access("toolRegistry", name, NoArgs) >>]

\* tool, ok := toolRegistry[name]; tool.Handler(args)
CallToolByName(name, args) ==
    IF name \in DOMAIN toolRegistry
    THEN LET r == RunHandler(toolRegistry[name].Handler, args)
         IN  [result |-> r.result, err |-> r.err,
              calls |-> << Access("toolRegistry", name, NoArgs),
                           Access("Handler", name, args) >>]
    ELSE [result |-> None,
          err |-> Some(<<"tool", " ", "not", " ", "found", ":", " ">> \o <<name>>),
          calls |-> << Access("toolRegistry", name, NoArgs) >>]

GetResource(name) ==
    IF name \in DOMAIN resourceRegistry
    THEN [result |-> Some(resourceRegistry[name]), err |-> None,
          calls |-> << Access("resourceRegistry", name, NoArgs) >>]
    ELSE [result |-> None,
          err |-> Some(<<"resource", " ", "not", " ", "found", ":", " ">> \o <<name>>),
          calls |-> << Access("resourceRegistry", name, NoArgs) >>]

GetPrompt(name) ==
    IF name \in DOMAIN promptRegistry
    THEN [result |-> Some(promptRegistry[name]), err |-> None,
          calls |-> << Access("promptRegistry", name, NoArgs) >>]
    ELSE [result |-> None,
          err |-> Some(<<"prompt", " ", "not", " ", "found", ":", " ">> \o <<name>>),
          calls |-> << Access("promptRegistry", name, NoArgs) >>]

----------------------------------------------------------------------------
(* Envelopes and parameter payloads *)

\* the "name" member of a parameter object is a string of Names, is
\* missing, or has the wrong JSON type (a number)
NameMissing == "<missing>"
NameNumber == "<number>"

\* the raw params of a request (json.RawMessage):
\*   absent: the envelope has no params member (zero-length raw message)
\*   null:   the JSON literal null
\*   scalar: a JSON value that is not an object
\*   object: a JSON object with an optional name and optional arguments
AbsentParams == [kind |-> "absent", name |-> NameMissing, args |-> NoArgs]
NullParams == [kind |-> "null", name |-> NameMissing, args |-> NoArgs]
ScalarParams == [kind |-> "scalar", name |-> NameMissing, args |-> NoArgs]
ObjectParams(name, args) == [kind |-> "object", name |-> name, args |-> args]

\* json.Unmarshal(req.Params, &params) for struct{Name string; Arguments
\* json.RawMessage}: the error, and the fields as they are left afterwards.
\* A member of the wrong type is reported and skipped, the other members
\* are still decoded; null decodes into the zero value without an error.
UnmarshalParams(p) ==
    CASE p.kind = "absent" -> [err |-> TRUE,  Name |-> "", Arguments |-> NoArgs]
      [] p.kind = "null"   -> [err |-> FALSE, Name |-> "", Arguments |-> NoArgs]
      [] p.kind = "scalar" -> [err |-> TRUE,  Name |-> "", Arguments |-> NoArgs]
      [] OTHER ->
            [err |-> (p.name = NameNumber),
             Name |-> IF p.name \in {NameMissing, NameNumber} THEN "" ELSE p.name,
             Arguments |-> p.args]

\* RPCError
RPCError(code, message) == [Code |-> code, Message |-> message]

CodeMethodNotFound == -32601
CodeInvalidParams == -32602

InvalidParamsMsg == <<"Invalid", " ", "params">>
MethodNotFoundMsg == <<"Method", " ", "not", " ", "found">>

\* the outcome of the dispatch switch: RPCResponse.Result, RPCResponse.Error
\* and the accesses made
Outcome(result, error, calls) == [Result |-> result, Error |-> error, calls |-> calls]

\* FromLookup with the invalid-params code in place of method-not-found
FromLookupWrongCode(r) ==
    IF IsSet(r.err)
    THEN Outcome(None, Some(RPCError(CodeInvalidParams, r.err[1])), r.calls)
    ELSE Outcome(r.result, None, r.calls)

\* if result, err := f(...); err != nil { resp.Error = ... } else { resp.Result = result }
FromLookup(r) ==
    IF IsSet(r.err)
    THEN Outcome(None, Some(RPCError(CodeMethodNotFound, r.err[1])), r.calls)
    ELSE Outcome(r.result, None, r.calls)

serverInfo == [name |-> "MCP Server", version |-> "1.0.0", tools |-> ListTools]

systemDescribe ==
    [description |-> "This is a JSON-RPC server for MCP.", version |-> "1.0.0",
     methods |-> ListEnabledMethods]

\* the switch of httpHandler
httpSwitch(req) ==
    CASE req.method = "tools.list" ->
            Outcome(Some(listTools), None, << Access("ListTools", "", NoArgs) >>)
      [] req.method = "tools.run" ->
            LET params == UnmarshalParams(req.params)
            IN  IF params.err
                THEN Outcome(None, Some(RPCError(CodeInvalidParams, InvalidParamsMsg)), <<>>)
                ELSE FromLookup(CallToolByName(params.Name, params.Arguments))
      [] req.method = "resources.get" ->
            LET params == UnmarshalParams(req.params)
            IN  IF params.err
                THEN Outcome(None, Some(RPCError(CodeInvalidParams, InvalidParamsMsg)), <<>>)
                ELSE FromLookup(GetResource(params.Name))
      [] req.method = "resources.list" ->
            Outcome(Some([resources |-> ListResources]), None,
                    << Access("ListResources", "", NoArgs) >>)
      [] req.method = "prompts.get" ->
            LET params == UnmarshalParams(req.params)
            IN  IF params.err
                THEN Outcome(None, Some(RPCError(CodeInvalidParams, InvalidParamsMsg)), <<>>)
                ELSE FromLookup(GetPrompt(params.Name))
      [] req.method = "prompts.list" ->
            Outcome(Some([prompts |-> ListPrompts]), None,
                    << Access("ListPrompts", "", NoArgs) >>)
      [] req.method = "server.info" ->
            Outcome(Some(serverInfo), None, << Access("ListTools", "", NoArgs) >>)
      [] req.method = "system.describe" ->
            Outcome(Some(systemDescribe), None, <<>>)
      [] req.method = "system.listMethods" ->
            Outcome(Some(ListEnabledMethods), None, <<>>)
      [] req.method = "system.version" ->
            Outcome(Some("2.0"), None, <<>>)
      [] OTHER ->
            Outcome(None, Some(RPCError(CodeMethodNotFound, MethodNotFoundMsg)), <<>>)

\* the switch of wsHandler: as httpSwitch, but the error of json.Unmarshal
\* is dropped in the tools.run case
wsSwitch(req) ==
    CASE req.method = "tools.list" ->
            Outcome(Some(listTools), None, << Access("ListTools", "", NoArgs) >>)
      [] req.method = "tools.run" ->
            LET params == UnmarshalParams(req.params)
            IN  FromLookup(CallToolByName(params.Name, params.Arguments))
      [] req.method = "resources.get" ->
            LET params == UnmarshalParams(req.params)
            IN  IF params.err
                THEN Outcome(None, Some(RPCError(CodeInvalidParams, InvalidParamsMsg)), <<>>)
                ELSE FromLookup(GetResource(params.Name))
      [] req.method = "resources.list" ->
            Outcome(Some([resources |-> ListResources]), None,
                    << Access("ListResources", "", NoArgs) >>)
      [] req.method = "prompts.get" ->
            LET params == UnmarshalParams(req.params)
            IN  IF params.err
                THEN Outcome(None, Some(RPCError(CodeInvalidParams, InvalidParamsMsg)), <<>>)
                ELSE FromLookup(GetPrompt(params.Name))
      [] req.method = "prompts.list" ->
            Outcome(Some([prompts |-> ListPrompts]), None,
                    << Access("ListPrompts", "", NoArgs) >>)
      [] req.method = "server.info" ->
            Outcome(Some(serverInfo), None, << Access("ListTools", "", NoArgs) >>)
      [] req.method = "system.describe" ->
            Outcome(Some(systemDescribe), None, <<>>)
      [] req.method = "system.listMethods" ->
            Outcome(Some(ListEnabledMethods), None, <<>>)
      [] req.method = "system.version" ->
            Outcome(Some("2.0"), None, <<>>)
      [] OTHER ->
            Outcome(None, Some(RPCError(CodeMethodNotFound, MethodNotFoundMsg)), <<>>)

\* RPCResponse that leaves ID at its zero value
RPCResponseNoID(id, o) == [ID |-> 0, Result |-> o.Result, Error |-> o.Error]

\* RPCResponse{JsonRPC: "2.0", ID: req.ID} with the outcome of the switch
RPCResponse(id, o) == [ID |-> id, Result |-> o.Result, Error |-> o.Error]

\* json encoding of an RPCResponse: result and error are omitempty, a nil
\* Result and a nil Error leave no member in the envelope on the wire
EncodeResponse(resp) ==
    [members |-> {"jsonrpc", "id"}
                    \cup (IF IsSet(resp.Result) THEN {"result"} ELSE {})
                    \cup (IF IsSet(resp.Error) THEN {"error"} ELSE {}),
     id |-> resp.ID,
     result |-> resp.Result,
     error |-> resp.Error]

----------------------------------------------------------------------------
(* The two request/response bindings of the server *)

RPCRequest(id, method, params) ==
    [wellFormed |-> TRUE, id |-> id, method |-> method, params |-> params]

\* method names of requests that are not keys of the table; "" is the
\* method of an envelope without a method member
UnknownMethods == { "foo.bar", "" }

\* parameter payloads of tools.run requests
RunPayloads ==
    { AbsentParams, NullParams, ScalarParams }
        \cup { ObjectParams(n, a) : n \in Names \cup {NameMissing, NameNumber}, a \in Args }

\* parameter payloads of resources.get and prompts.get requests
GetPayloads ==
    { AbsentParams, NullParams, ScalarParams }
        \cup { ObjectParams(n, NoArgs) : n \in Names \cup {NameMissing, NameNumber} }

PayloadsOf(method) ==
    CASE method = "tools.run" -> RunPayloads
      [] method \in {"resources.get", "prompts.get"} -> GetPayloads
      [] OTHER -> { AbsentParams }

Requests ==
    { Malformed } \cup
    UNION { { RPCRequest(id, m, p) : id \in 1..MaxId, p \in PayloadsOf(m) } :
              m \in MethodNames \cup UnknownMethods }

\* httpHandler: decode the body, run the switch, encode the response
httpHandler(req) ==
    /\ out' = IF ~req.wellFormed
              THEN Served("http", req, "400", None, <<>>)
              ELSE LET o == httpSwitch(req)
                   IN  Served("http", req, "200",
                              Some(EncodeResponse(RPCResponse(req.id, o))), o.calls)
    /\ UNCHANGED <<Methods, toolRegistry, resourceRegistry, promptRegistry, clientVars, sharedVars>>

\* the round of a loop that carries on with the zero-valued request when
\* ReadJSON fails
wsServeIgnoresReadError(req) ==
    /\ out' = LET o == wsSwitch(req)
              IN  Served("ws", req, "written",
                         Some(EncodeResponse(RPCResponse(req.id, o))), o.calls)
    /\ UNCHANGED <<Methods, toolRegistry, resourceRegistry, promptRegistry, clientVars, sharedVars>>

\* one round of the read/dispatch loop of wsHandler on an open connection:
\* ReadJSON, the switch, WriteJSON; a read error ends the loop
wsServe(req) ==
    /\ out' = IF ~req.wellFormed
              THEN Served("ws", req, "break", None, <<>>)
              ELSE LET o == wsSwitch(req)
                   IN  Served("ws", req, "written",
                              Some(EncodeResponse(RPCResponse(req.id, o))), o.calls)
    /\ UNCHANGED <<Methods, toolRegistry, resourceRegistry, promptRegistry, clientVars, sharedVars>>

----------------------------------------------------------------------------
(* The unified client facade and the request/reply client transports *)

Callers == 1..NumCallers

\* the facade operations that issue an RPC
RpcOps == { "Call", "CallTool", "ServerInfo", "ServerToolsList" }

\* the facade operations the model invokes: operation, method, params.
\* Call is invoked with a method outside the catalog and nil args, CallTool
\* wraps name and arguments, ServerInfo and ServerToolsList send an empty map.
FacadeCalls ==
    { <<"Call", "foo.bar", NullParams>>,
      <<"CallTool", "tools.run", ObjectParams("geocode", ObjArgs)>>,
      <<"ServerInfo", "server.info", ObjectParams(NameMissing, NoArgs)>>,
      <<"ServerToolsList", "tools.list", ObjectParams(NameMissing, NoArgs)>> }

\* Route with the push variant delegating its RPC operations like the unary one
RouteSseAsHttp(m, op) ==
    IF op \in RpcOps
    THEN CASE m = "http" -> "http"
           [] m = "ws"   -> "ws"
           [] m = "sse"  -> "http"
           [] OTHER      -> "unknown"
    ELSE CASE m = "http" -> "mismatch"
           [] m = "ws"   -> "mismatch"
           [] m = "sse"  -> "sse"
           [] OTHER      -> "unknown"

\* the calls the model makes on a transport that carries them: one that is
\* answered with an error and one that is answered with a result
CarriedCalls ==
    { <<"Call", "foo.bar", NullParams>>,
      <<"CallTool", "tools.run", ObjectParams("geocode", ObjArgs)>> }

\* the operations the model invokes on a facade of mode m
CallsOn(m) == IF m \in {"http", "ws"} THEN CarriedCalls ELSE FacadeCalls

\* the switch on c.mode of the facade: the transport an operation is
\* delegated to, "mismatch" when the bound transport does not support it,
\* "unknown" for a mode that is none of the three
Route(m, op) ==
    IF op \in RpcOps
    THEN CASE m = "http" -> "http"
           [] m = "ws"   -> "ws"
           [] m = "sse"  -> "mismatch"
           [] OTHER      -> "unknown"
    ELSE CASE m = "http" -> "mismatch"
           [] m = "ws"   -> "mismatch"
           [] m = "sse"  -> "sse"
           [] OTHER      -> "unknown"

\* what a facade operation returned: kind is "ok" (a result), "rpcerr" (the
\* envelope carried an error), "ioerr" (the transport failed), "mismatch",
\* "unknown", or "none" before the first return
Ret(op, kind, reqId, env) == [op |-> op, kind |-> kind, reqId |-> reqId, env |-> env]

NoRet == Ret("none", "none", 0, None)

NoCall == [op |-> "none", req |-> Malformed]

\* the id taken before the increment instead of after it
NewReqIDStale(c) == c

\* reqID := atomic.AddUint64(&c.counter, 1): the value the call gets
NewReqID(c) == c + 1

\* a line of the history wire
WireEvent(ev, id, ok) == [ev |-> ev, id |-> id, ok |-> ok]

\* the return of a Call that compares the id of the envelope with the id
\* of its request and rejects an envelope that answers another request
RetOfEnvelopeChecksId(op, reqId, env) ==
    IF env.id # reqId
    THEN Ret(op, "ioerr", reqId, None)
    ELSE Ret(op, IF "error" \in env.members THEN "rpcerr" ELSE "ok", reqId, Some(env))

\* the return of Call for a decoded response envelope
RetOfEnvelope(op, reqId, env) ==
    Ret(op, IF "error" \in env.members THEN "rpcerr" ELSE "ok", reqId, Some(env))

\* a caller returns from Call
Return(c, ret) ==
    /\ callPc' = [callPc EXCEPT ![c] = "idle"]
    /\ callRet' = [callRet EXCEPT ![c] = ret]
    /\ returns' = Append(returns, ret)

\* UnifiedClient.Call, CallTool, ServerInfo, ServerToolsList: the switch on
\* the mode and, on the http and ws transports, the first statements of
\* Call, which take the next id and build the request
UnifiedCall(c, op, method, params) ==
    /\ callPc[c] = "idle"
    /\ LET r == Route(mode, op)
       IN  IF r \in {"http", "ws"}
           THEN /\ counter < MaxCalls
                /\ counter' = counter + 1
                /\ callReq' = [callReq EXCEPT ![c] =
                                 [op |-> op, req |-> RPCRequest(NewReqID(counter), method, params)]]
                /\ issued' = Append(issued, NewReqID(counter))
                /\ callPc' = [callPc EXCEPT ![c] = IF r = "http" THEN "do" ELSE "write"]
                /\ UNCHANGED <<callRet>>
           ELSE /\ callRet' = [callRet EXCEPT ![c] = Ret(op, r, 0, None)]
                /\ UNCHANGED <<counter, callReq, issued, callPc>>
    /\ UNCHANGED <<mode, callers, wire, returns, connVars, pushVars, dispatchVars, sharedVars>>

\* HTTPClient.Call from http.DefaultClient.Do on: the request is served by
\* httpHandler and the envelope decoded, or the exchange fails
HTTPDo(c) ==
    /\ callPc[c] = "do"
    /\ \E ok \in BOOLEAN :
         LET call == callReq[c]
             env == EncodeResponse(RPCResponse(call.req.id, httpSwitch(call.req)))
         IN  /\ wire' = Append(wire, WireEvent("request", call.req.id, ok))
             /\ Return(c, IF ok THEN RetOfEnvelope(call.op, call.req.id, env)
                                ELSE Ret(call.op, "ioerr", call.req.id, None))
    /\ UNCHANGED <<mode, callers, counter, callReq, issued, connVars, pushVars, dispatchVars, sharedVars>>

----------------------------------------------------------------------------
(* The duplex client *)

\* frames of the duplex connection: a data message (a JSON text, with the
\* value it decodes to, None if it does not decode), a ping, a close frame
DataFrame(body) == [type |-> "data", body |-> body]
\* conn.WriteMessage(websocket.PingMessage, []byte("ping"))
PingFrame == [type |-> "ping", body |-> None]
CloseFrame == [type |-> "close", body |-> None]

\* NextReader handles control frames itself: the frames left once the
\* leading pings are consumed
RECURSIVE SkipControl(_)
SkipControl(q) ==
    IF q # <<>> /\ Head(q).type = "ping" THEN SkipControl(Tail(q)) ELSE q

\* WSClient.Call: c.conn.WriteJSON(req)
WSWriteJSON(c) ==
    /\ callPc[c] = "write"
    /\ LET call == callReq[c]
       IN  IF sock = "open"
           THEN /\ c2s' = Append(c2s, DataFrame(Some(call.req)))
                /\ wire' = Append(wire, WireEvent("request", call.req.id, TRUE))
                /\ callPc' = [callPc EXCEPT ![c] = "read"]
                /\ UNCHANGED <<callRet, returns>>
           ELSE /\ wire' = Append(wire, WireEvent("request", call.req.id, FALSE))
                /\ Return(c, Ret(call.op, "ioerr", call.req.id, None))
                /\ UNCHANGED c2s
    /\ UNCHANGED <<mode, callers, counter, callReq, issued, sock, closePc, closes, s2c,
                   srvPc, srvResp, hbPc, done, srvConn, ticks, raced, served,
                   pushVars, dispatchVars, sharedVars>>

\* WSClient.Call: c.conn.ReadJSON(&rpcResp) and the return. The next data
\* message is taken as the response, whatever its id.
WSReadJSON(c) ==
    /\ callPc[c] = "read"
    /\ LET call == callReq[c]
           q == SkipControl(s2c)
       IN  \/ /\ sock = "open"
              /\ q # <<>>
              /\ s2c' = Tail(q)
              /\ Return(c, IF IsSet(Head(q).body)
                           THEN RetOfEnvelope(call.op, call.req.id, Head(q).body[1])
                           ELSE Ret(call.op, "ioerr", call.req.id, None))
           \/ /\ \/ sock = "released"
                 \/ q = <<>> /\ srvConn = "closed"
              /\ s2c' = q
              /\ Return(c, Ret(call.op, "ioerr", call.req.id, None))
    /\ UNCHANGED <<mode, callers, counter, callReq, issued, wire, sock, closePc, closes,
                   c2s, srvPc, srvResp, hbPc, done, srvConn, ticks, raced, served,
                   pushVars, dispatchVars, sharedVars>>

\* number of times the model calls Close on one client
MaxCloses == 2

\* Close with its two statements swapped
CloseProgramReleaseFirst == << "Close", "WriteMessage" >>

\* the statements of WSClient.Close, in program order
CloseProgram == << "WriteMessage", "Close" >>

\* UnifiedClient.Close on a duplex client: the next statement of
\* WSClient.Close
WSClose ==
    /\ mode = "ws"
    /\ closes < MaxCloses
    /\ LET stmt == CloseProgram[closePc + 1]
       IN  IF stmt = "WriteMessage"
           THEN /\ wire' = Append(wire, WireEvent("closeFrame", 0, sock = "open"))
                /\ c2s' = IF sock = "open" THEN Append(c2s, CloseFrame) ELSE c2s
                /\ UNCHANGED sock
           ELSE /\ wire' = Append(wire, WireEvent("release", 0, TRUE))
                /\ sock' = "released"
                /\ UNCHANGED c2s
    /\ closePc' = IF closePc + 1 = Len(CloseProgram) THEN 0 ELSE closePc + 1
    /\ closes' = IF closePc + 1 = Len(CloseProgram) THEN closes + 1 ELSE closes
    /\ UNCHANGED <<mode, callers, counter, callPc, callReq, callRet, issued, returns,
                   s2c, srvPc, srvResp, hbPc, done, srvConn, ticks, raced, served,
                   pushVars, dispatchVars, sharedVars>>

----------------------------------------------------------------------------
(* wsHandler: the read/dispatch loop and the heartbeat goroutine of one    *)
(* connection.  conn.WriteJSON and conn.WriteMessage are not atomic: each  *)
(* is a begin and an end step, and nothing in wsHandler keeps the two      *)
(* writers apart.  The connection allows one writer at a time; when the    *)
(* two writes overlap the outcome is any of: both frames intact, the       *)
(* response frame cut short (it no longer decodes), or a panic of the      *)
(* goroutine that detects the overlap.                                     *)

NoResp == [ID |-> 0, Result |-> None, Error |-> None]

\* the loop with a read that stays blocked when conn was closed locally
SrvReadBlocksOnClosed ==
    /\ srvPc = "read"
    /\ \/ /\ srvConn = "open"
          /\ c2s # <<>>
          /\ c2s' = Tail(c2s)
          /\ IF Head(c2s).type = "data" /\ IsSet(Head(c2s).body)
                                        /\ Head(c2s).body[1].wellFormed
             THEN LET req == Head(c2s).body[1]
                      resp == RPCResponse(req.id, wsSwitch(req))
                  IN  /\ srvResp' = resp
                      /\ served' = Append(served, [req |-> req, env |-> EncodeResponse(resp)])
                      /\ srvPc' = "write"
             ELSE /\ srvPc' = "closeDone"
                  /\ UNCHANGED <<srvResp, served>>
       \/ /\ srvConn = "open" /\ c2s = <<>> /\ sock = "released"
          /\ srvPc' = "closeDone"
          /\ UNCHANGED <<c2s, srvResp, served>>
    /\ UNCHANGED <<sock, closePc, closes, s2c, hbPc, done, srvConn, ticks, raced,
                   facadeVars, pushVars, dispatchVars, sharedVars>>

\* conn.ReadJSON(&req) and the switch
SrvRead ==
    /\ srvPc = "read"
    /\ \/ /\ srvConn = "open"
          /\ c2s # <<>>
          /\ c2s' = Tail(c2s)
          /\ IF Head(c2s).type = "data" /\ IsSet(Head(c2s).body)
                                        /\ Head(c2s).body[1].wellFormed
             THEN LET req == Head(c2s).body[1]
                      resp == RPCResponse(req.id, wsSwitch(req))
                  IN  /\ srvResp' = resp
                      /\ served' = Append(served, [req |-> req, env |-> EncodeResponse(resp)])
                      /\ srvPc' = "write"
             ELSE \* a close frame or a message that does not decode: break
                  /\ srvPc' = "closeDone"
                  /\ UNCHANGED <<srvResp, served>>
       \/ \* the read fails: conn was closed by the heartbeat, or the peer is gone
          /\ \/ srvConn = "closed"
             \/ c2s = <<>> /\ sock = "released"
          /\ srvPc' = "closeDone"
          /\ UNCHANGED <<c2s, srvResp, served>>
    /\ UNCHANGED <<sock, closePc, closes, s2c, hbPc, done, srvConn, ticks, raced,
                   facadeVars, pushVars, dispatchVars, sharedVars>>

\* conn.WriteJSON(resp) begins
SrvWriteBegin ==
    /\ srvPc = "write"
    /\ srvPc' = "writing"
    /\ raced' = (raced \/ hbPc = "writing")
    /\ UNCHANGED <<sock, closePc, closes, c2s, s2c, srvResp, hbPc, done, srvConn, ticks,
                   served, facadeVars, pushVars, dispatchVars, sharedVars>>

\* the ways a write on conn can end
\*   ok: the frame is sent          fail: the write returns an error
\*   cut: the frame is sent cut short, the write returns nil
\*   cutfail: the frame is sent cut short, the write returns an error
\*   panic: the writer panics
WriteOutcomes(overlapped) ==
    IF srvConn = "closed" THEN {"fail"}
    ELSE {"ok"} \cup (IF sock = "released" THEN {"fail"} ELSE {})
                \cup (IF overlapped THEN {"cut", "cutfail", "panic"} ELSE {})

\* conn.WriteJSON(resp) ends; on an error wsHandler returns without
\* close(done); a panic of the handler goroutine runs the deferred
\* conn.Close()
SrvWriteEnd ==
    /\ srvPc = "writing"
    /\ \E res \in WriteOutcomes(raced) :
         /\ s2c' = CASE res = "ok" -> Append(s2c, DataFrame(Some(EncodeResponse(srvResp))))
                     [] res \in {"cut", "cutfail"} -> Append(s2c, DataFrame(None))
                     [] OTHER -> s2c
         /\ srvPc' = CASE res \in {"ok", "cut"} -> "read"
                       [] res \in {"fail", "cutfail"} -> "defer"
                       [] OTHER -> "returned"
         /\ srvConn' = IF res = "panic" THEN "closed" ELSE srvConn
    /\ raced' = (raced /\ hbPc = "writing")
    /\ UNCHANGED <<sock, closePc, closes, c2s, srvResp, hbPc, done, ticks, served,
                   facadeVars, pushVars, dispatchVars, sharedVars>>

\* close(done), after the loop was left by break
SrvCloseDone ==
    /\ srvPc = "closeDone"
    /\ done' = done + 1
    /\ srvPc' = "defer"
    /\ UNCHANGED <<sock, closePc, closes, c2s, s2c, srvResp, hbPc, srvConn, ticks, raced,
                   served, facadeVars, pushVars, dispatchVars, sharedVars>>

\* wsHandler returns: the deferred conn.Close()
SrvReturn ==
    /\ srvPc = "defer"
    /\ srvConn' = "closed"
    /\ srvPc' = "returned"
    /\ UNCHANGED <<sock, closePc, closes, c2s, s2c, srvResp, hbPc, done, ticks, raced,
                   served, facadeVars, pushVars, dispatchVars, sharedVars>>

\* heartbeat: select takes <-done
HbStop ==
    /\ hbPc = "select"
    /\ done > 0
    /\ hbPc' = "stopped"
    /\ UNCHANGED <<sock, closePc, closes, c2s, s2c, srvPc, srvResp, done, srvConn, ticks,
                   raced, served, facadeVars, pushVars, dispatchVars, sharedVars>>

\* heartbeat: select takes <-ticker.C and conn.WriteMessage(PingMessage)
\* begins.  MaxTicks bounds the probes on an open connection; the ticker
\* goes on firing, and on a closed connection the tick that follows ends
\* the goroutine.
HbTick ==
    /\ hbPc = "select"
    /\ ticks < MaxTicks \/ srvConn = "closed"
    /\ ticks' = IF ticks < MaxTicks THEN ticks + 1 ELSE ticks
    /\ hbPc' = "writing"
    /\ raced' = (raced \/ srvPc = "writing")
    /\ UNCHANGED <<sock, closePc, closes, c2s, s2c, srvPc, srvResp, done, srvConn, served,
                   facadeVars, pushVars, dispatchVars, sharedVars>>

\* the heartbeat with a close(done) of its own on the error path
HbWriteEndClosesDone ==
    /\ hbPc = "writing"
    /\ \E res \in WriteOutcomes(raced) \ {"cut", "cutfail"} :
         /\ s2c' = IF res = "ok" THEN Append(s2c, PingFrame) ELSE s2c
         /\ hbPc' = CASE res = "ok" -> "select"
                      [] res = "fail" -> "failed"
                      [] OTHER -> "crashed"
         /\ srvConn' = IF res = "ok" THEN srvConn ELSE "closed"
         /\ srvPc' = IF res = "panic" THEN "crashed" ELSE srvPc
         /\ done' = IF res = "fail" THEN done + 1 ELSE done
    /\ raced' = (raced /\ srvPc = "writing")
    /\ UNCHANGED <<sock, closePc, closes, c2s, srvResp, ticks, served,
                   facadeVars, pushVars, dispatchVars, sharedVars>>

\* HbWriteEnd of a heartbeat that ignores the error of its probe write and
\* goes back to its select
HbWriteEndIgnoresError ==
    /\ hbPc = "writing"
    /\ \E res \in WriteOutcomes(raced) \ {"cut", "cutfail"} :
         /\ s2c' = IF res = "ok" THEN Append(s2c, PingFrame) ELSE s2c
         /\ hbPc' = IF res = "panic" THEN "crashed" ELSE "select"
         /\ srvConn' = IF res = "panic" THEN "closed" ELSE srvConn
         /\ srvPc' = IF res = "panic" THEN "crashed" ELSE srvPc
    /\ raced' = (raced /\ srvPc = "writing")
    /\ UNCHANGED <<sock, closePc, closes, c2s, srvResp, done, ticks, served,
                   facadeVars, pushVars, dispatchVars, sharedVars>>

\* heartbeat: conn.WriteMessage(PingMessage) ends; on an error the
\* goroutine closes conn and returns ("failed"); a panic of this goroutine
\* ends the process.  A ping is a control frame whatever its payload.
HbWriteEnd ==
    /\ hbPc = "writing"
    /\ \E res \in WriteOutcomes(raced) \ {"cut", "cutfail"} :
         /\ s2c' = IF res = "ok" THEN Append(s2c, PingFrame) ELSE s2c
         /\ hbPc' = CASE res = "ok" -> "select"
                      [] res = "fail" -> "failed"
                      [] OTHER -> "crashed"
         /\ srvConn' = IF res = "ok" THEN srvConn ELSE "closed"
         /\ srvPc' = IF res = "panic" THEN "crashed" ELSE srvPc
    /\ raced' = (raced /\ srvPc = "writing")
    /\ UNCHANGED <<sock, closePc, closes, c2s, srvResp, done, ticks, served,
                   facadeVars, pushVars, dispatchVars, sharedVars>>

----------------------------------------------------------------------------
(* The push client: SSEClient.ListenSSE *)

\* a line is a sequence of tokens; "event:" and "data:" stand for these
\* six and five characters, " " for one space
EventPrefix == << "event:", " " >>
DataPrefix == << "data:", " " >>

HasPrefix(line, prefix) ==
    /\ Len(line) >= Len(prefix)
    /\ SubSeq(line, 1, Len(prefix)) = prefix

\* line[n:], n the length of the prefix
After(line, prefix) == SubSeq(line, Len(prefix) + 1, Len(line))

\* bytes.TrimSpace
RECURSIVE TrimSpace(_)
TrimSpace(line) ==
    IF line = <<>> THEN line
    ELSE IF Head(line) = " " THEN TrimSpace(Tail(line))
    ELSE IF line[Len(line)] = " " THEN TrimSpace(SubSeq(line, 1, Len(line) - 1))
    ELSE line

\* the body of the loop of ListenSSE with a blank line taken as the end of
\* a record: it forgets the event name
ListenStepResetOnBlank(name, raw) ==
    LET line == TrimSpace(raw)
    IN  IF Len(line) = 0 THEN [eventName |-> <<>>, fire |-> None]
        ELSE IF HasPrefix(line, EventPrefix)
             THEN [eventName |-> After(line, EventPrefix), fire |-> None]
        ELSE IF HasPrefix(line, DataPrefix)
             THEN [eventName |-> name,
                   fire |-> Some([event |-> name, data |-> After(line, DataPrefix)])]
        ELSE [eventName |-> name, fire |-> None]

\* the body of the loop of ListenSSE for one line that was read: the event
\* name afterwards and the call of the handler, if any
ListenStep(name, raw) ==
    LET line == TrimSpace(raw)
    IN  IF Len(line) = 0 THEN [eventName |-> name, fire |-> None]
        ELSE IF HasPrefix(line, EventPrefix)
             THEN [eventName |-> After(line, EventPrefix), fire |-> None]
        ELSE IF HasPrefix(line, DataPrefix)
             THEN [eventName |-> name,
                   fire |-> Some([event |-> name, data |-> After(line, DataPrefix)])]
        ELSE [eventName |-> name, fire |-> None]

\* UnifiedClient.WatchEvents: the switch on the mode and, on the push
\* transport, ListenSSE up to the first read: the GET request
UnifiedWatchEvents(c) ==
    /\ callPc[c] = "idle"
    /\ LET r == Route(mode, "WatchEvents")
       IN  IF r = "sse"
           THEN /\ ssePc = "idle"
                /\ \E ok \in BOOLEAN :
                     /\ wire' = Append(wire, WireEvent("get", 0, ok))
                     /\ ssePc' = IF ok THEN "reading" ELSE "ended"
                     /\ callPc' = [callPc EXCEPT ![c] = IF ok THEN "listen" ELSE "idle"]
                     /\ callRet' = [callRet EXCEPT ![c] =
                                      IF ok THEN @ ELSE Ret("WatchEvents", "ioerr", 0, None)]
           ELSE /\ callRet' = [callRet EXCEPT ![c] = Ret("WatchEvents", r, 0, None)]
                /\ UNCHANGED <<wire, ssePc, callPc>>
    /\ UNCHANGED <<mode, callers, counter, callReq, issued, returns, connVars,
                   sseStream, ssePos, eventName, callbacks, dispatchVars, sharedVars>>

\* ListenSSE: reader.ReadBytes returns a line, and the body of the loop
SSEReadLine ==
    /\ ssePc = "reading"
    /\ ssePos < Len(sseStream.lines)
    /\ LET st == ListenStep(eventName, sseStream.lines[ssePos + 1])
       IN  /\ eventName' = st.eventName
           /\ callbacks' = callbacks \o st.fire
    /\ ssePos' = ssePos + 1
    /\ UNCHANGED <<sseStream, ssePc, facadeVars, connVars, dispatchVars, sharedVars>>

\* ListenSSE: reader.ReadBytes returns an error at the end of the body;
\* what it read of an unterminated last line is dropped
SSEReadErr(c) ==
    /\ ssePc = "reading"
    /\ callPc[c] = "listen"
    /\ ssePos = Len(sseStream.lines)
    /\ ssePc' = "ended"
    /\ callPc' = [callPc EXCEPT ![c] = "idle"]
    /\ callRet' = [callRet EXCEPT ![c] = Ret("WatchEvents", "ioerr", 0, None)]
    /\ UNCHANGED <<mode, callers, counter, callReq, issued, wire, returns, connVars,
                   sseStream, ssePos, eventName, callbacks, dispatchVars, sharedVars>>

\* the lines the model feeds to the push client
SseLines ==
    { << "event:", " ", "a" >>,           \* label a
      << "event:", " ", "b" >>,           \* label b
      << "data:", " ", "x" >>,            \* payload x
      << " ", "data:", " ", "y", " " >>,  \* payload y, with spaces around
      << >>,                              \* blank
      << " " >>,                          \* blank once trimmed
      << "event:", " " >>,                \* "event:" once trimmed
      << "data:", "x" >>,                 \* no space after the colon
      << "id:", " ", "x" >> }             \* another field

RECURSIVE SeqsUpTo(_, _)
SeqsUpTo(S, n) ==
    IF n = 0 THEN { <<>> }
    ELSE LET shorter == SeqsUpTo(S, n - 1)
         IN  shorter \cup { Append(q, x) : q \in { r \in shorter : Len(r) = n - 1 }, x \in S }

\* an event stream: its newline-terminated lines and what follows the last
\* newline
Streams ==
    { [lines |-> ls, tail |-> t] :
        ls \in SeqsUpTo(SseLines, MaxLines), t \in { <<>>, << "data:", " ", "x" >> } }

NoStream == [lines |-> <<>>, tail |-> <<>>]

\* the body of the stream after one broadcastSSE("update", ...) of the
\* server: "event: %s\ndata: %s\n\n"
BroadcastStream ==
    [lines |-> << << "event:", " ", "update" >>, << "data:", " ", "{message}" >>, << >> >>,
     tail |-> <<>>]

----------------------------------------------------------------------------
(* The push binding of the server: sseHandler, broadcastSSE and the ticker *)
(* goroutine of Start.  sseClients is a Go map written by the handler      *)
(* goroutines and ranged over by the ticker goroutine, and nothing orders  *)
(* these accesses.  A map write is a begin and an end step.  A write that  *)
(* overlaps another write ends in any of: applied, lost, or a fatal error  *)
(* of the runtime ("concurrent map writes"); a step of the range loop      *)
(* taken while a write is in progress can end in the fatal error           *)
(* "concurrent map iteration and map write".                               *)

Subs == 1..NumSubs

\* the handlers that are inside a write of sseClients
Writers == { c \in Subs : hPc[c] \in {"adding", "deleting"} }

\* the ways a write of sseClients can end
MapWriteOutcomes == IF mapRaced THEN {"applied", "lost", "fatal"} ELSE {"applied"}

\* sseHandler: a connection is accepted, the headers are set, and
\* sseClients[client] = struct{}{} begins
SseAddBegin(c) ==
    /\ ~fatal
    /\ hPc[c] = "none"
    /\ hPc' = [hPc EXCEPT ![c] = "adding"]
    /\ mapRaced' = (mapRaced \/ Writers # {})
    /\ UNCHANGED <<sseClients, bcPc, bcStart, bcVisited, count, deliveries, fatal,
                   storeVars, dispatchVars, clientVars>>

\* sseClients[client] = struct{}{} ends; the handler then waits on notify
SseAddEnd(c) ==
    /\ ~fatal
    /\ hPc[c] = "adding"
    /\ \E res \in MapWriteOutcomes :
         /\ sseClients' = IF res = "applied" THEN sseClients \cup {c} ELSE sseClients
         /\ fatal' = (res = "fatal")
         /\ hPc' = IF res = "fatal" THEN hPc ELSE [hPc EXCEPT ![c] = "waiting"]
    /\ mapRaced' = (mapRaced /\ Writers \ {c} # {})
    /\ UNCHANGED <<bcPc, bcStart, bcVisited, count, deliveries,
                   storeVars, dispatchVars, clientVars>>

\* the peer disconnects: <-notify returns and the deferred
\* delete(sseClients, client) begins
SsePeerGone(c) ==
    /\ ~fatal
    /\ hPc[c] = "waiting"
    /\ hPc' = [hPc EXCEPT ![c] = "deleting"]
    /\ mapRaced' = (mapRaced \/ Writers # {})
    /\ UNCHANGED <<sseClients, bcPc, bcStart, bcVisited, count, deliveries, fatal,
                   storeVars, dispatchVars, clientVars>>

\* delete(sseClients, client) ends and sseHandler returns
SseDeleteEnd(c) ==
    /\ ~fatal
    /\ hPc[c] = "deleting"
    /\ \E res \in MapWriteOutcomes :
         /\ sseClients' = IF res = "applied" THEN sseClients \ {c} ELSE sseClients
         /\ fatal' = (res = "fatal")
         /\ hPc' = IF res = "fatal" THEN hPc ELSE [hPc EXCEPT ![c] = "returned"]
    /\ mapRaced' = (mapRaced /\ Writers \ {c} # {})
    /\ UNCHANGED <<bcPc, bcStart, bcVisited, count, deliveries,
                   storeVars, dispatchVars, clientVars>>

\* the ticker fires: count++ and broadcastSSE("update", ...) begins its
\* range over sseClients
BcTick ==
    /\ ~fatal
    /\ bcPc = "idle"
    /\ count < MaxEvents
    /\ count' = count + 1
    /\ bcPc' = "iter"
    /\ bcStart' = sseClients
    /\ bcVisited' = {}
    /\ UNCHANGED <<sseClients, hPc, deliveries, mapRaced, fatal,
                   storeVars, dispatchVars, clientVars>>

\* a write to one subscriber: it fails when the peer is gone and may fail
\* otherwise; the error is not looked at
Delivery(n, c, ok) == [n |-> n, to |-> c, ok |-> ok]

\* one round of the range loop: the next subscriber of the map that was
\* not produced yet, client.writer.Write and client.flusher.Flush
BcDeliver ==
    /\ ~fatal
    /\ bcPc = "iter"
    /\ \E c \in sseClients \ bcVisited :
         \E ok \in (IF hPc[c] = "waiting" THEN BOOLEAN ELSE {FALSE}) :
            /\ deliveries' = Append(deliveries, Delivery(count, c, ok))
            /\ bcVisited' = bcVisited \cup {c}
    /\ UNCHANGED <<sseClients, hPc, bcPc, bcStart, count, mapRaced, fatal,
                   storeVars, dispatchVars, clientVars>>

\* a round of the range loop taken while a handler is inside a write of
\* the map: the runtime ends the process
BcThrow ==
    /\ ~fatal
    /\ bcPc = "iter"
    /\ Writers # {}
    /\ fatal' = TRUE
    /\ bcPc' = "dead"
    /\ UNCHANGED <<sseClients, hPc, bcStart, bcVisited, count, deliveries, mapRaced,
                   storeVars, dispatchVars, clientVars>>

\* the range loop ends: every entry that was in the map when it began and
\* is still there was produced (an entry added meanwhile may be skipped)
BcEnd ==
    /\ ~fatal
    /\ bcPc = "iter"
    /\ (sseClients \cap bcStart) \ bcVisited = {}
    /\ bcPc' = "idle"
    /\ UNCHANGED <<sseClients, hPc, bcStart, bcVisited, count, deliveries, mapRaced, fatal,
                   storeVars, dispatchVars, clientVars>>

----------------------------------------------------------------------------
(* The registries under concurrent use.  An operation on a registry is a   *)
(* begin and an end step.  RegisterResource, GetResource, ListResources    *)
(* and the three operations on prompts hold resourceLock / promptLock      *)
(* (sync.RWMutex) from begin to end; RegisterTool, ListTools and           *)
(* CallToolByName take no lock.  A map operation that overlaps a write of  *)
(* the same map ends in any of: done, lost (for a write), or a fatal error *)
(* of the runtime.                                                         *)

Stores == { "tools", "resources", "prompts" }

\* the stores guarded by a sync.RWMutex
Locked(store) == store \in { "resources", "prompts" }

StoreOps == { "register", "get", "list" }

IdleOp == [op |-> "idle", store |-> "", d |-> <<>>]

\* the goroutines inside an operation on the store, and those inside a
\* registration
Inside(store) == { t \in DOMAIN stPc : stPc[t].op # "idle" /\ stPc[t].store = store }
WritersIn(store) == { t \in Inside(store) : stPc[t].op = "register" }

\* Lock() of a registration and RLock() of a get or a list: whether the
\* goroutine gets past it now
CanEnter(store, op) ==
    IF Locked(store)
    THEN IF op = "register" THEN Inside(store) = {} ELSE WritersIn(store) = {}
    ELSE TRUE

\* the descriptors the goroutines register, per store: two names, and two
\* descriptors under one name
StoreDescriptors(store) ==
    CASE store = "tools" -> ToolDescriptors
      [] store = "resources" ->
            ResourceDescriptors \cup
            { [Name |-> "geocode", Type |-> "json", Data |-> "world"],
              [Name |-> "", Type |-> "string", Data |-> "x"] }
      [] OTHER ->
            PromptDescriptors \cup
            { [Name |-> "geocode", Template |-> "t2"],
              [Name |-> "", Template |-> "t3"] }

\* the descriptors registered while several goroutines are at work: one
\* per store
SharedDescriptors(store) ==
    CASE store = "tools" -> { d \in ToolDescriptors : d.Handler = "demo" }
      [] store = "resources" -> ResourceDescriptors
      [] OTHER -> PromptDescriptors

\* a line of the history regLog
Registration(store, d) == [store |-> store, d |-> d]

\* a goroutine enters RegisterX(d), GetX / CallToolByName or ListX: it
\* takes the lock of the store, if the store has one
StBegin(t, store, op, d) ==
    /\ ~fatal
    /\ stPc[t].op = "idle"
    /\ CanEnter(store, op)
    /\ op = "register" => Len(regLog) + Cardinality(UNION { WritersIn(x) : x \in Stores }) < MaxRegs
    /\ stPc' = [stPc EXCEPT ![t] = [op |-> op, store |-> store, d |-> d]]
    /\ stRaced' = IF \/ op = "register" /\ Inside(store) # {}
                     \/ WritersIn(store) # {}
                  THEN stRaced \cup {store}
                  ELSE stRaced
    /\ UNCHANGED <<regLog, hubVars, fatal, dispatchVars, clientVars>>

\* the ways a map operation can end
StoreOutcomes(store, op) ==
    IF store \in stRaced
    THEN {"done", "fatal"} \cup (IF op = "register" THEN {"lost"} ELSE {})
    ELSE {"done"}

\* the operation ends: a registration has written m[d.Name] = d, the lock
\* is released
StEnd(t) ==
    /\ ~fatal
    /\ stPc[t].op # "idle"
    /\ LET store == stPc[t].store
           op == stPc[t].op
           d == stPc[t].d
       IN  \E res \in StoreOutcomes(store, op) :
             LET written == op = "register" /\ res = "done"
             IN  /\ toolRegistry' = IF written /\ store = "tools"
                                    THEN MapPut(toolRegistry, d.Name, d) ELSE toolRegistry
                 /\ resourceRegistry' = IF written /\ store = "resources"
                                        THEN MapPut(resourceRegistry, d.Name, d)
                                        ELSE resourceRegistry
                 /\ promptRegistry' = IF written /\ store = "prompts"
                                      THEN MapPut(promptRegistry, d.Name, d)
                                      ELSE promptRegistry
                 /\ regLog' = IF op = "register" /\ res # "fatal"
                              THEN Append(regLog, Registration(store, d)) ELSE regLog
                 /\ fatal' = (res = "fatal")
                 /\ stPc' = IF res = "fatal" THEN stPc ELSE [stPc EXCEPT ![t] = IdleOp]
                 /\ stRaced' = IF Inside(store) \ {t} = {} THEN stRaced \ {store} ELSE stRaced
    /\ UNCHANGED <<Methods, out, hubVars, clientVars>>

----------------------------------------------------------------------------
(* Initial states *)

\* no connection to /sse, the ticker goroutine between two events
HubInit ==
    /\ sseClients = {}
    /\ hPc = [c \in Subs |-> "none"]
    /\ bcPc = "idle"
    /\ bcStart = {}
    /\ bcVisited = {}
    /\ count = 0
    /\ deliveries = <<>>
    /\ mapRaced = FALSE
    /\ fatal = FALSE

\* no goroutine is inside a registry operation
StoreInit ==
    /\ stPc = EmptyMap
    /\ stRaced = {}
    /\ regLog = <<>>

\* the push binding and the registries are left alone
NoShared == HubInit /\ StoreInit

\* no client: the dispatcher is observed alone
NoClient ==
    /\ mode = ""
    /\ callers = {}
    /\ counter = 0
    /\ callPc = EmptyMap
    /\ callReq = EmptyMap
    /\ callRet = EmptyMap
    /\ issued = <<>>
    /\ wire = <<>>
    /\ returns = <<>>

NoConn ==
    /\ sock = "none"
    /\ closePc = 0
    /\ closes = 0
    /\ c2s = <<>>
    /\ s2c = <<>>
    /\ srvPc = "none"
    /\ srvResp = NoResp
    /\ hbPc = "none"
    /\ done = 0
    /\ srvConn = "none"
    /\ ticks = 0
    /\ raced = FALSE
    /\ served = <<>>

NoPush ==
    /\ sseStream = NoStream
    /\ ssePos = 0
    /\ ssePc = "idle"
    /\ eventName = <<>>
    /\ callbacks = <<>>

\* the package-level state of mcpserver before anything is registered
DispatchInit ==
    /\ Methods = MethodsInit
    /\ toolRegistry = EmptyMap
    /\ resourceRegistry = EmptyMap
    /\ promptRegistry = EmptyMap
    /\ out = NothingServed

\* the server as StartMcpServer runs it: testTools has registered its tools
\* (geocode stands for the three of them)
ServerStarted ==
    /\ Methods = MethodsInit
    /\ toolRegistry = MapPut(EmptyMap, "geocode",
                             [Name |-> "geocode", Description |-> "d1", Handler |-> "demo"])
    /\ resourceRegistry = EmptyMap
    /\ promptRegistry = EmptyMap
    /\ out = NothingServed

\* NewUnifiedClientHTTP, NewUnifiedClientWS, NewUnifiedClientSSE, or the
\* zero value of UnifiedClient, used by the goroutines cs
FacadeInit(m, cs) ==
    /\ mode = m
    /\ callers = cs
    /\ counter = 0
    /\ callPc = [c \in cs |-> "idle"]
    /\ callReq = [c \in cs |-> NoCall]
    /\ callRet = [c \in cs |-> NoRet]
    /\ issued = <<>>
    /\ wire = <<>>
    /\ returns = <<>>

\* the connection NewWSClient dialed, accepted by wsHandler
ConnInit ==
    /\ sock = "open"
    /\ closePc = 0
    /\ closes = 0
    /\ c2s = <<>>
    /\ s2c = <<>>
    /\ srvPc = "read"
    /\ srvResp = NoResp
    /\ hbPc = "select"
    /\ done = 0
    /\ srvConn = "open"
    /\ ticks = 0
    /\ raced = FALSE
    /\ served = <<>>

PushInit(streams) ==
    /\ sseStream \in streams
    /\ ssePos = 0
    /\ ssePc = "idle"
    /\ eventName = <<>>
    /\ callbacks = <<>>

----------------------------------------------------------------------------
(* Spec: the dispatcher, under any sequence of registrations, method       *)
(* switches and requests over the two bindings                             *)

Init == DispatchInit /\ NoClient /\ NoConn /\ NoPush /\ NoShared

Next ==
    \/ \E m \in ToggledMethods, b \in BOOLEAN : SetMethodEnabled(m, b)
    \/ \E t \in ToolDescriptors : RegisterTool(t)
    \/ \E r \in ResourceDescriptors : RegisterResource(r)
    \/ \E p \in PromptDescriptors : RegisterPrompt(p)
    \/ \E req \in Requests : httpHandler(req)
    \/ \E req \in Requests : wsServe(req)

Spec == Init /\ [][Next]_vars

----------------------------------------------------------------------------
(* SpecMethods: the method table under SetMethodEnabled, read through the  *)
(* two introspection methods of both bindings                              *)

\* the requests that list the table
IntrospectionRequests ==
    { RPCRequest(id, m, AbsentParams) :
        id \in 1..MaxId, m \in {"system.listMethods", "system.describe"} }

MethodsNext ==
    \/ \E m \in MethodNames \cup {"foo.bar"}, b \in BOOLEAN : SetMethodEnabled(m, b)
    \/ \E req \in IntrospectionRequests : httpHandler(req)
    \/ \E req \in IntrospectionRequests : wsServe(req)

SpecMethods == Init /\ [][MethodsNext]_vars

----------------------------------------------------------------------------
(* SpecDuplex: one duplex client used by a single goroutine, and the       *)
(* wsHandler of its connection                                             *)

DuplexInit == ServerStarted /\ FacadeInit("ws", {1}) /\ ConnInit /\ NoPush /\ NoShared

DuplexNext ==
    \/ \E c \in callers, f \in CallsOn(mode) : UnifiedCall(c, f[1], f[2], f[3])
    \/ \E c \in callers : WSWriteJSON(c)
    \/ \E c \in callers : WSReadJSON(c)
    \/ WSClose
    \/ SrvRead
    \/ SrvWriteBegin
    \/ SrvWriteEnd
    \/ SrvCloseDone
    \/ SrvReturn
    \/ HbStop
    \/ HbTick
    \/ HbWriteEnd

SpecDuplex == DuplexInit /\ [][DuplexNext]_vars

\* SpecDuplex with the goroutine of wsHandler scheduled: a step of the
\* read/dispatch loop that can be taken is taken (a read on a closed
\* connection returns, a write returns, a return runs its defer)
DuplexFairness ==
    /\ WF_vars(SrvRead)
    /\ WF_vars(SrvWriteBegin)
    /\ WF_vars(SrvWriteEnd)
    /\ WF_vars(SrvCloseDone)
    /\ WF_vars(SrvReturn)

\* the steps of SpecDuplex, with a client whose calls are all of one kind
\* (which request the loop is answering makes no difference to how the
\* two goroutines end)
DuplexLiveNext ==
    \/ \E c \in callers : UnifiedCall(c, "Call", "foo.bar", NullParams)
    \/ \E c \in callers : WSWriteJSON(c)
    \/ \E c \in callers : WSReadJSON(c)
    \/ WSClose
    \/ SrvRead
    \/ SrvWriteBegin
    \/ SrvWriteEnd
    \/ SrvCloseDone
    \/ SrvReturn
    \/ HbStop
    \/ HbTick
    \/ HbWriteEnd

SpecDuplexLive == DuplexInit /\ [][DuplexLiveNext]_vars /\ DuplexFairness

\* the heartbeat goroutine is scheduled and its ticker keeps firing: a
\* select that can take a case takes one, a write returns
HeartbeatFairness ==
    /\ WF_vars(HbStop)
    /\ WF_vars(HbTick)
    /\ WF_vars(HbWriteEnd)

SpecHeartbeatLive == DuplexInit /\ [][DuplexLiveNext]_vars /\ HeartbeatFairness

----------------------------------------------------------------------------
(* SpecClient: a facade of any of the variants shared by NumCallers        *)
(* goroutines                                                              *)

ClientInit ==
    /\ ServerStarted
    /\ NoShared
    /\ \E m \in {"http", "ws", "sse", ""} :
         /\ FacadeInit(m, Callers)
         /\ IF m = "ws" THEN ConnInit ELSE NoConn
         /\ IF m = "sse" THEN PushInit({BroadcastStream}) ELSE NoPush

\* the heartbeat and Close are left to SpecDuplex
ClientNext ==
    \/ \E c \in callers, f \in CallsOn(mode) : UnifiedCall(c, f[1], f[2], f[3])
    \/ \E c \in callers : UnifiedWatchEvents(c)
    \/ \E c \in callers : HTTPDo(c)
    \/ \E c \in callers : WSWriteJSON(c)
    \/ \E c \in callers : WSReadJSON(c)
    \/ SrvRead
    \/ SrvWriteBegin
    \/ SrvWriteEnd
    \/ SSEReadLine
    \/ \E c \in callers : SSEReadErr(c)

SpecClient == ClientInit /\ [][ClientNext]_vars

----------------------------------------------------------------------------
(* SpecPush: the push client reading any event stream of up to MaxLines    *)
(* lines                                                                   *)

PushClientInit ==
    ServerStarted /\ FacadeInit("sse", {1}) /\ NoConn /\ PushInit(Streams) /\ NoShared

PushNext ==
    \/ \E c \in callers : UnifiedWatchEvents(c)
    \/ SSEReadLine
    \/ \E c \in callers : SSEReadErr(c)

SpecPush == PushClientInit /\ [][PushNext]_vars

----------------------------------------------------------------------------
(* SpecHub: the push binding of the server with NumSubs connections and    *)
(* the ticker goroutine                                                    *)

HubSpecInit == ServerStarted /\ NoClient /\ NoConn /\ NoPush /\ HubInit /\ StoreInit

HubNext ==
    \/ \E c \in Subs : SseAddBegin(c)
    \/ \E c \in Subs : SseAddEnd(c)
    \/ \E c \in Subs : SsePeerGone(c)
    \/ \E c \in Subs : SseDeleteEnd(c)
    \/ BcTick
    \/ BcDeliver
    \/ BcThrow
    \/ BcEnd

SpecHub == HubSpecInit /\ [][HubNext]_vars

----------------------------------------------------------------------------
(* SpecStore: NumTasks goroutines registering, looking up and listing at   *)
(* once; SpecRegistry: one goroutine, one operation after another          *)

\* empty registries and the goroutines ts, none of them inside an operation
StoreSpecInit(ts) ==
    /\ DispatchInit /\ NoClient /\ NoConn /\ NoPush /\ HubInit
    /\ stPc = [t \in ts |-> IdleOp]
    /\ stRaced = {}
    /\ regLog = <<>>

StoreNext ==
    \/ \E t \in DOMAIN stPc, store \in Stores :
          \/ \E d \in SharedDescriptors(store) : StBegin(t, store, "register", d)
          \/ \E op \in StoreOps \ {"register"} : StBegin(t, store, op, <<>>)
    \/ \E t \in DOMAIN stPc : StEnd(t)

SpecStore == StoreSpecInit(1..NumTasks) /\ [][StoreNext]_vars

RegistryNext ==
    \/ \E t \in DOMAIN stPc, store \in Stores :
          \/ \E d \in StoreDescriptors(store) : StBegin(t, store, "register", d)
          \/ \E op \in StoreOps \ {"register"} : StBegin(t, store, op, <<>>)
    \/ \E t \in DOMAIN stPc : StEnd(t)

SpecRegistry == StoreSpecInit({1}) /\ [][RegistryNext]_vars

----------------------------------------------------------------------------
(* Properties of the dispatcher *)

\* a well-formed request has just been served over one of the two bindings
JustServed ==
    /\ out.binding \in {"http", "ws"}
    /\ out.req.wellFormed

\* the envelope that was written
Envelope == out.resp[1]

\* the envelope is a method-not-found error without a result
IsMethodNotFound(env) ==
    /\ "error" \in env.members
    /\ "result" \notin env.members
    /\ env.error[1].Code = CodeMethodNotFound

\* C1: a request for a method that is disabled in the table gets the outcome
\* of a request for a name that was never in the table: a method-not-found
\* error (-32601), and no handler or registry is touched.
C1_DisabledIsNotFound ==
    (JustServed /\ out.req.method \in DOMAIN Methods /\ ~Methods[out.req.method])
        => /\ IsSet(out.resp)
           /\ IsMethodNotFound(Envelope)
           /\ Envelope.error[1].Message = MethodNotFoundMsg
           /\ out.calls = <<>>

\* C2: every response envelope written by either binding has exactly one of
\* the members result and error.
C2_ExactlyOneOfResultError ==
    (JustServed /\ IsSet(out.resp))
        => ("result" \in Envelope.members) # ("error" \in Envelope.members)

\* the methods whose parameters are decoded by the dispatcher
ParamMethods == { "tools.run", "resources.get", "prompts.get" }

\* C3: when the parameters of tools.run, resources.get or prompts.get fail
\* to decode, the response is an invalid-params error (-32602) and no
\* handler or registry is reached.
C3_DecodeFailureIsInvalidParams ==
    (JustServed /\ out.req.method \in ParamMethods
                /\ UnmarshalParams(out.req.params).err)
        => /\ IsSet(out.resp)
           /\ "error" \in Envelope.members
           /\ Envelope.error[1].Code = CodeInvalidParams
           /\ out.calls = <<>>

\* C4: a request for a method name that is not in the catalog gets, over
\* either binding, an envelope with the id of the request, no result, and
\* an error with code -32601 whose message contains "not found".
C4_UnknownMethodNotFound ==
    (JustServed /\ out.req.method \notin MethodNames)
        => /\ IsSet(out.resp)
           /\ IsMethodNotFound(Envelope)
           /\ Contains(Envelope.error[1].Message, NotFoundText)
           /\ Envelope.id = out.req.id

\* C4 happens: foo.bar was answered on the duplex binding
C4_Witness ==
    /\ JustServed
    /\ out.binding = "ws"
    /\ out.req.method = "foo.bar"
    /\ out.req.id = MaxId
    /\ IsSet(out.resp)

\* the registry a method looks a name up in
RegisteredNames(method) ==
    CASE method = "tools.run" -> DOMAIN toolRegistry
      [] method = "resources.get" -> DOMAIN resourceRegistry
      [] OTHER -> DOMAIN promptRegistry

\* the request names a capability: its params are an object with a string name
NamesCapability(req) ==
    /\ req.method \in ParamMethods
    /\ req.params.kind = "object"
    /\ req.params.name \in Names

\* C6: tools.run, resources.get or prompts.get with a name that is not in
\* the registry gets an error with code -32601 whose message contains that
\* name, and no handler is invoked.
C6_AbsentNameNotFound ==
    (JustServed /\ NamesCapability(out.req)
                /\ out.req.params.name \notin RegisteredNames(out.req.method))
        => /\ IsSet(out.resp)
           /\ IsMethodNotFound(Envelope)
           /\ Contains(Envelope.error[1].Message, NotFoundText)
           /\ Contains(Envelope.error[1].Message, <<out.req.params.name>>)
           /\ \A i \in 1..Len(out.calls) : out.calls[i].op # "Handler"

\* C6 happens: tools.run names ghost while another tool is registered
C6_Witness ==
    /\ JustServed
    /\ out.req.method = "tools.run"
    /\ NamesCapability(out.req)
    /\ out.req.params.name = "ghost"
    /\ "geocode" \in DOMAIN toolRegistry
    /\ IsSet(out.resp)

----------------------------------------------------------------------------
(* Properties of the client transports and of the duplex connection *)

\* the positions of the events ev in the history wire
WireIdx(ev) == { i \in 1..Len(wire) : wire[i].ev = ev }

\* C5: under concurrent callers of Call on one transport, the ids put in
\* the request envelopes are pairwise distinct, the first one is 1, and in
\* the order of the increments of the counter they are 1, 2, 3, ...
C5_IdsDistinctIncreasing ==
    /\ Len(issued) = counter
    /\ \A i \in 1..Len(issued) : issued[i] = i
    /\ \A i, j \in WireIdx("request") : i # j => wire[i].id # wire[j].id
    /\ \A c, d \in callers :
         (c # d /\ callReq[c].op # "none" /\ callReq[d].op # "none")
            => callReq[c].req.id # callReq[d].req.id

\* C5 happens: two calls are in flight on the duplex transport at once
C5_Witness ==
    /\ mode = "ws"
    /\ Cardinality({ c \in callers : callPc[c] \in {"write", "read"} }) >= 2
    /\ Len(issued) >= 2

\* the client has not called Close: nothing but requests went out
NeverClosed == \A i \in 1..Len(wire) : wire[i].ev = "request"

\* C7: on a duplex connection used by one caller, one call after another,
\* and not closed by the client, the n-th call returns the outcome the
\* server computed for the n-th request, with the id of that request, also
\* when the heartbeat goroutine sends its probes on the connection.
C7_SequentialCallsMatch ==
    NeverClosed =>
        \A n \in 1..Len(returns) :
            /\ returns[n].reqId = n
            /\ returns[n].kind \in {"ok", "rpcerr"}
            /\ n <= Len(served)
            /\ served[n].req.id = n
            /\ returns[n].env = Some(served[n].env)
            /\ returns[n].env[1].id = n

\* C8: Close sends the close frame and then releases the socket: every
\* release comes after the send of a close frame of the same Close, a close
\* frame sent on the open connection goes out, and nothing goes out after a
\* release.
C8_CloseFrameThenRelease ==
    /\ \A i \in WireIdx("release") :
         \E j \in WireIdx("closeFrame") :
            /\ j < i
            /\ \A k \in WireIdx("release") : ~(j < k /\ k < i)
    /\ \A j \in WireIdx("closeFrame") :
         wire[j].ok = (\A i \in WireIdx("release") : j < i)
    /\ \A i \in WireIdx("release"), j \in WireIdx("request") \cup WireIdx("closeFrame") :
         i < j => ~wire[j].ok
    /\ (sock = "released") = (WireIdx("release") # {})
    /\ closePc = 1 => /\ WireIdx("closeFrame") # {}
                      /\ \A i \in WireIdx("release") :
                            \E j \in WireIdx("closeFrame") : i < j

\* C8 happens: Close ran on the open connection, and a later call could
\* not send
C8_Witness ==
    /\ sock = "released"
    /\ closes >= 1
    /\ \E j \in WireIdx("closeFrame") : wire[j].ok
    /\ \E i \in WireIdx("release"), j \in WireIdx("request") : i < j /\ ~wire[j].ok

----------------------------------------------------------------------------
(* Properties of the push client *)

IsLabelLine(raw) == HasPrefix(TrimSpace(raw), EventPrefix)

IsPayloadLine(raw) == ~IsLabelLine(raw) /\ HasPrefix(TrimSpace(raw), DataPrefix)

\* the lines read so far
LinesRead == SubSeq(sseStream.lines, 1, ssePos)

\* the positions of the payload lines among the lines read
PayloadIdx == { i \in 1..ssePos : IsPayloadLine(LinesRead[i]) }

\* the position of the n-th payload line
NthPayload(n) ==
    CHOOSE i \in PayloadIdx : Cardinality({ j \in PayloadIdx : j <= i }) = n

\* the name given by the last label line before position i, empty if none
NameBefore(i) ==
    LET labels == { j \in 1..(i - 1) : IsLabelLine(LinesRead[j]) }
    IN  IF labels = {} THEN <<>>
        ELSE LET last == CHOOSE j \in labels : \A k \in labels : k <= j
             IN  After(TrimSpace(LinesRead[last]), EventPrefix)

\* C9: the handler is called once per payload line read, in the order of
\* the lines, with the name of the last label line before it (the empty
\* name if there is none); blank and other lines call nothing and do not
\* change the name.
C9_OneCallbackPerPayloadLine ==
    /\ Len(callbacks) = Cardinality(PayloadIdx)
    /\ \A n \in 1..Len(callbacks) :
         /\ callbacks[n].event = NameBefore(NthPayload(n))
         /\ callbacks[n].data = After(TrimSpace(LinesRead[NthPayload(n)]), DataPrefix)
    /\ eventName = NameBefore(ssePos + 1)

\* C9 happens: a label, a blank line and a payload were read, and the
\* payload was delivered under the label
C9_Witness ==
    /\ ssePc = "ended"
    /\ sseStream.lines = << << "event:", " ", "a" >>, << >>, << "data:", " ", "x" >> >>
    /\ callbacks = << [event |-> << "a" >>, data |-> << "x" >>] >>

----------------------------------------------------------------------------
(* Properties of the facade *)

\* a step of SpecClient as C10 allows it
C10_Step ==
    /\ mode' = "sse" =>
         /\ counter' = 0
         /\ WireIdx("request")' = {}
         /\ \A c \in callers :
              /\ callPc'[c] \in {"idle", "listen"}
              /\ callRet'[c].op \in RpcOps => callRet'[c].kind = "mismatch"
    /\ mode' \in {"http", "ws"} =>
         /\ ssePc' = "idle"
         /\ WireIdx("get")' = {}
         /\ \A c \in callers :
              callRet'[c].op = "WatchEvents" => callRet'[c].kind = "mismatch"
    /\ \A c \in callers :
         (callRet'[c] # callRet[c] /\ callRet'[c].kind = "mismatch")
            => /\ callPc[c] = "idle"
               /\ UNCHANGED <<mode, callers, counter, callPc, callReq, issued, wire,
                              returns, connVars, pushVars, dispatchVars, sharedVars>>

\* C10: an operation the bound transport does not support (an RPC on a push
\* facade, WatchEvents on a unary or duplex facade) returns a local error
\* at once: nothing is sent, and the facade and the id counter of the
\* transport are left as they were.
C10_UnsupportedFailsLocally == [][C10_Step]_vars

\* C10 happens: on a push facade, Call and ServerToolsList were refused
C10_Witness ==
    /\ mode = "sse"
    /\ callRet[1].op = "Call"
    /\ callRet[1].kind = "mismatch"
    /\ callRet[2].op = "ServerToolsList"
    /\ callRet[2].kind = "mismatch"

\* one step of the connection, as the cancellation signal sees it
C11_Step ==
    /\ done' \in {done, done + 1}
    /\ done' <= 1
    /\ done' # done => srvPc = "closeDone"
    /\ (srvPc = "closeDone" /\ srvPc' = "defer") => (done = 0 /\ done' = 1)

\* C11: close(done) is executed once when the read/dispatch loop was left
\* by break (a read error: a message that does not decode, a close frame,
\* a closed connection), by no other step, and never a second time,
\* whatever the heartbeat goroutine does meanwhile.
C11_DoneClosedOnce == [][C11_Step]_vars

\* C11 happens: the probe write failed, the heartbeat closed conn, and the
\* loop was left by break and closed done
C11_Witness ==
    /\ hbPc = "failed"
    /\ done = 1
    /\ srvPc \in {"defer", "returned"}

\* C17: when a probe write of the heartbeat fails, the heartbeat goroutine
\* has closed conn and ended, and the read/dispatch loop ends as well:
\* wsHandler eventually returns.
C17_ProbeFailureEndsBoth ==
    /\ [](hbPc = "failed" => srvConn = "closed")
    /\ (hbPc = "failed") ~> (hbPc = "failed" /\ srvPc = "returned")

\* C17 happens: the probe failed and conn was closed by the heartbeat
\* while the loop was about to read
C17_Witness ==
    /\ hbPc = "failed"
    /\ srvPc = "read"
    /\ srvConn = "closed"

\* C18: on a duplex client shared by concurrent callers, the n-th call to
\* return is handed the n-th response the server wrote, as result or as
\* error, whatever request that response answers: the ids are not
\* compared, so a call can return the response to another call's request.
C18_NextMessageIsTheResponse ==
    mode = "ws" =>
        \A n \in 1..Len(returns) :
            /\ n <= Len(served)
            /\ returns[n].env = Some(served[n].env)
            /\ returns[n].kind = IF IsSet(served[n].env.error) THEN "rpcerr" ELSE "ok"

\* C18 happens: a call returned as its result the response to the other
\* caller's request
C18_Witness ==
    /\ mode = "ws"
    /\ \E n \in 1..Len(returns) :
         /\ returns[n].kind = "ok"
         /\ returns[n].env[1].id # returns[n].reqId

----------------------------------------------------------------------------
(* Totality of the dispatch *)

\* the runs of a tool handler made while serving the request
HandlerRuns == { i \in 1..Len(out.calls) : out.calls[i].op = "Handler" }

\* a well-formed request was answered by one envelope with its id; the
\* outcome of a handler that ran is what the envelope carries
C15_Answered ==
    JustServed =>
        /\ out.status \in {"200", "written"}
        /\ IsSet(out.resp)
        /\ Len(out.resp) = 1
        /\ Envelope.id = out.req.id
        /\ Cardinality(HandlerRuns) <= 1
        /\ \A i \in HandlerRuns :
              LET r == RunHandler(toolRegistry[out.calls[i].name].Handler, out.calls[i].args)
              IN  IF IsSet(r.err)
                  THEN /\ IsSet(Envelope.error)
                       /\ Envelope.error[1].Message = r.err[1]
                       /\ ~IsSet(Envelope.result)
                  ELSE /\ Envelope.result = r.result
                       /\ ~IsSet(Envelope.error)

\* on a duplex connection a request is read only when the loop is at
\* ReadJSON, its response is then the one to be written, and the loop is
\* back at ReadJSON only through the end of WriteJSON
C15_DuplexStep ==
    /\ served' # served =>
          /\ srvPc = "read"
          /\ srvPc' = "write"
          /\ Len(served') = Len(served) + 1
          /\ srvResp'.ID = served'[Len(served')].req.id
    /\ (srvPc = "write" /\ srvPc' # srvPc) => srvPc' \in {"writing", "crashed"}
    /\ (srvPc' = "read" /\ srvPc # "read") => srvPc = "writing"

C16_MalformedRejected ==
    (out.binding \in {"http", "ws"} /\ ~out.req.wellFormed)
        => /\ out.status = IF out.binding = "http" THEN "400" ELSE "break"
           /\ out.resp = None
           /\ out.calls = <<>>

\* C16 happens: the duplex binding read a message that does not decode
\* while a tool was registered
C16_Witness ==
    /\ out.binding = "ws"
    /\ ~out.req.wellFormed
    /\ out.status = "break"
    /\ toolRegistry # EmptyMap

----------------------------------------------------------------------------
(* Properties of the push binding of the server *)

\* C12: the accesses to the subscriber set exclude each other: no two
\* handlers are inside a registration or a removal at once, and none is
\* while broadcastSSE ranges over the set.
C12_SubscriberSetExclusive ==
    /\ Cardinality(Writers) <= 1
    /\ ~(Writers # {} /\ bcPc = "iter")

\* the n-th broadcast wrote to subscriber c
Delivered(n, c) == \E i \in 1..Len(deliveries) : deliveries[i].n = n /\ deliveries[i].to = c

\* C19: a broadcast that is over has written to every subscriber that was
\* in the set when it began, whether or not the writes to the others
\* failed, and the ticker goroutine is still there for the next event.
C19_BroadcastReachesAll ==
    (count >= 1 /\ bcPc # "iter")
        => /\ bcPc = "idle"
           /\ \A c \in bcStart : Delivered(count, c)

\* C20: the subscriber set holds exactly the connections that were
\* accepted and whose handler has not returned: a connection whose
\* handler waits for the disconnect is in the set, one that was never
\* accepted or whose handler returned is not.
C20_SetIsLiveConnections ==
    ~fatal =>
        \A c \in Subs :
            /\ hPc[c] = "waiting" => c \in sseClients
            /\ hPc[c] \in {"none", "returned"} => c \notin sseClients

----------------------------------------------------------------------------
(* Properties of the registries *)

\* C13: on each of the three registries a registration excludes every
\* other operation on the same store: while a goroutine is inside
\* RegisterX no other goroutine is inside a register, a get or a list of
\* that store.
C13_RegistrationAtomic ==
    \A store \in Stores :
        \A t \in WritersIn(store) : Inside(store) = {t}

\* the registrations of a name in a store, as positions of regLog
RegsOf(store, name) ==
    { i \in 1..Len(regLog) : regLog[i].store = store /\ regLog[i].d.Name = name }

\* the names registered in a store
LoggedNames(store) == { regLog[i].d.Name : i \in { j \in 1..Len(regLog) : regLog[j].store = store } }

\* the descriptor of the most recent registration of the name
LastOf(store, name) ==
    regLog[CHOOSE i \in RegsOf(store, name) : \A j \in RegsOf(store, name) : j <= i].d

\* the outcome of a get is a not-found error that names the name
IsNotFoundOf(r, name) ==
    /\ ~IsSet(r.result)
    /\ IsSet(r.err)
    /\ Contains(r.err[1], NotFoundText)
    /\ Contains(r.err[1], <<name>>)

\* C14: after any sequence of registrations, on each registry: a get of a
\* name gives the descriptor of the most recent registration of that name
\* (for a tool: runs the handler of that descriptor), whatever was
\* registered under other names; a get of a name never registered fails
\* with not-found; a list has exactly one entry per registered name, taken
\* from its most recent registration.
C14_LastWriteWins ==
    /\ \A name \in Names :
          /\ IF RegsOf("tools", name) = {}
             THEN \A a \in Args : IsNotFoundOf(CallToolByName(name, a), name)
             ELSE \A a \in Args :
                    LET r == CallToolByName(name, a)
                        h == RunHandler(LastOf("tools", name).Handler, a)
                    IN  r.result = h.result /\ r.err = h.err
          /\ IF RegsOf("resources", name) = {}
             THEN IsNotFoundOf(GetResource(name), name)
             ELSE /\ GetResource(name).result = Some(LastOf("resources", name))
                  /\ ~IsSet(GetResource(name).err)
          /\ IF RegsOf("prompts", name) = {}
             THEN IsNotFoundOf(GetPrompt(name), name)
             ELSE /\ GetPrompt(name).result = Some(LastOf("prompts", name))
                  /\ ~IsSet(GetPrompt(name).err)
    /\ ListTools = { [name |-> n, description |-> LastOf("tools", n).Description] :
                        n \in LoggedNames("tools") }
    /\ Cardinality(ListTools) = Cardinality(LoggedNames("tools"))
    /\ ListResources = { [name |-> n, type |-> LastOf("resources", n).Type] :
                            n \in LoggedNames("resources") }
    /\ Cardinality(ListResources) = Cardinality(LoggedNames("resources"))
    /\ ListPrompts = LoggedNames("prompts")

\* C14 happens: a name was registered, another name was registered, and
\* the first name was registered again with another descriptor
C14_Witness ==
    /\ Len(regLog) = 3
    /\ regLog[1].store = regLog[2].store
    /\ regLog[1].store = regLog[3].store
    /\ regLog[1].d.Name = regLog[3].d.Name
    /\ regLog[1].d # regLog[3].d
    /\ regLog[2].d.Name # regLog[1].d.Name

----------------------------------------------------------------------------
(* The end of the heartbeat goroutine *)

\* the heartbeat goroutine has ended: it took <-done, its probe write
\* failed, or the process ended
HbEnded == hbPc \in {"stopped", "failed", "crashed"}

\* an ended heartbeat stays ended and takes no tick
C22_Step == HbEnded => (hbPc' = hbPc /\ ticks' = ticks)

\* C22: once wsHandler has returned, by a break of the loop or by a
\* failed response write, the heartbeat goroutine of the connection
\* eventually ends, and an ended heartbeat sends no probe.
C22_HeartbeatEnds ==
    /\ (srvPc = "returned") ~> HbEnded
    /\ [][C22_Step]_vars

\* C22 happens: wsHandler returned after a failed response write, without
\* close(done), while the heartbeat is waiting in its select
C22_Witness ==
    /\ srvPc = "returned"
    /\ done = 0
    /\ hbPc = "select"

\* C23: the probe write of the heartbeat and the response write of the
\* read/dispatch loop are never in progress at once on the connection.
C23_OneWriterAtATime == ~(srvPc = "writing" /\ hbPc = "writing")

----------------------------------------------------------------------------
(* The listing of the method table *)

\* the names whose flag is true
FlaggedTrue == { m \in MethodNames : Methods[m] }

C21_Listing ==
    /\ DOMAIN Methods = MethodNames
    /\ (JustServed /\ out.req.method = "system.listMethods")
          => /\ IsSet(out.resp)
             /\ Envelope.result = Some(FlaggedTrue)
             /\ "error" \notin Envelope.members
    /\ (JustServed /\ out.req.method = "system.describe")
          => /\ IsSet(out.resp)
             /\ IsSet(Envelope.result)
             /\ Envelope.result[1].methods = FlaggedTrue

\* a step that changes the table flips the flag of one of its keys, from
\* true to false or from false to true
C21_Step ==
    Methods' # Methods
        => \E m \in MethodNames : Methods' = [Methods EXCEPT ![m] = ~Methods[m]]

\* C21: system.listMethods, and the methods member of system.describe,
\* return exactly the names whose flag in the table is true at the time of
\* the request; the key set of the table never changes, SetMethodEnabled
\* changes nothing else than the flag of one key, in either direction.
C21_ListsEnabledMethods == []C21_Listing /\ [][C21_Step]_vars

\* C21 happens: the table was listed after tools.run was disabled, and
\* the listing itself is disabled
C21_Witness ==
    /\ JustServed
    /\ out.req.method = "system.listMethods"
    /\ ~Methods["tools.run"]
    /\ ~Methods["system.listMethods"]
    /\ Methods["system.version"]
    /\ IsSet(out.resp)
    /\ "tools.run" \notin Envelope.result[1]

====
